---------------------------- MODULE Spec2Model ----------------------------
(***************************************************************************)
(* A model of the spreadsheet engine of src/spreadsheet.js: the Cell       *)
(* record, the Spreadsheet constructor, setCell, getCell, _evaluateCell    *)
(* and _updateDependents.                                                  *)
(*                                                                         *)
(* Text is a sequence of one-character strings, so that trimming, the      *)
(* reference pattern, replaceAll, the validation pattern and the           *)
(* evaluation of the arithmetic text are computed character by character.  *)
(* A JavaScript value is a record [t, n, d, s]:                            *)
(*   t = "str"   a string, its characters in s                             *)
(*   t = "num"   the finite number n/d (d > 0, lowest terms)               *)
(*   t = "inf"   Infinity (n = 1) or -Infinity (n = -1)                    *)
(*   t = "nan"   NaN                                                       *)
(*   t = "undef" undefined                                                 *)
(*   t = "other" a result outside the part of JavaScript modelled here     *)
(*               (exponent and radix literals, ** , comments, regular      *)
(*               expression literals, decimals that do not terminate);     *)
(*               InModelledFragment states that no reachable cell holds it *)
(* Negative zero is not distinguished from zero.                           *)
(***************************************************************************)
EXTENDS Integers, Sequences, FiniteSets, TLC

--------------------------------------------------------------------------
(* Characters and text *)

Digits == <<"0", "1", "2", "3", "4", "5", "6", "7", "8", "9">>

IsDigit(c) == c \in {"0", "1", "2", "3", "4", "5", "6", "7", "8", "9"}

DigitVal(c) == (CHOOSE i \in 1..10 : Digits[i] = c) - 1

IsSpace(c) == c = " "

RECURSIVE TrimStart(_)
TrimStart(s) ==
  IF s # <<>> /\ IsSpace(Head(s)) THEN TrimStart(Tail(s)) ELSE s

RECURSIVE TrimEnd(_)
TrimEnd(s) ==
  IF s # <<>> /\ IsSpace(s[Len(s)]) THEN TrimEnd(SubSeq(s, 1, Len(s) - 1)) ELSE s

Trim(s) == TrimEnd(TrimStart(s))

StartsWith(s, p) == Len(s) >= Len(p) /\ SubSeq(s, 1, Len(p)) = p

Slice(s, k) == SubSeq(s, k + 1, Len(s))

RECURSIVE ReplaceAll(_, _, _)
ReplaceAll(s, pat, rep) ==
  IF s = <<>> THEN <<>>
  ELSE IF StartsWith(s, pat) THEN rep \o ReplaceAll(Slice(s, Len(pat)), pat, rep)
  ELSE <<Head(s)>> \o ReplaceAll(Tail(s), pat, rep)

--------------------------------------------------------------------------
(* JavaScript values *)

Str(s) == [t |-> "str", n |-> 0, d |-> 1, s |-> s]
Undefined == [t |-> "undef", n |-> 0, d |-> 1, s |-> <<>>]
Other == [t |-> "other", n |-> 0, d |-> 1, s |-> <<>>]
NaN == [t |-> "nan", n |-> 0, d |-> 1, s |-> <<>>]
Inf(sg) == [t |-> "inf", n |-> sg, d |-> 1, s |-> <<>>]

Abs(x) == IF x < 0 THEN -x ELSE x
Sgn(x) == IF x < 0 THEN -1 ELSE 1

RECURSIVE GCD(_, _)
GCD(a, b) == IF b = 0 THEN a ELSE GCD(b, a % b)

Num(n, d) ==
  LET g == GCD(Abs(n), d)
  IN [t |-> "num", n |-> Sgn(n) * (Abs(n) \div g), d |-> d \div g, s |-> <<>>]

IntV(n) == Num(n, 1)

EmptyStr == Str(<<>>)
CIRC == Str(<<"#", "C", "I", "R", "C">>)
ERR == Str(<<"#", "E", "R", "R">>)

IsNumber(v) == v.t \in {"num", "inf", "nan"}

(* IEEE arithmetic on the values above *)
Neg(a) ==
  CASE a.t = "num" -> Num(-a.n, a.d)
    [] a.t = "inf" -> Inf(-a.n)
    [] OTHER -> a

Add(a, b) ==
  CASE a.t = "other" \/ b.t = "other" -> Other
    [] a.t = "nan" \/ b.t = "nan" -> NaN
    [] a.t = "inf" /\ b.t = "inf" -> IF a.n = b.n THEN a ELSE NaN
    [] a.t = "inf" -> a
    [] b.t = "inf" -> b
    [] OTHER -> Num(a.n * b.d + b.n * a.d, a.d * b.d)

Sub(a, b) == Add(a, Neg(b))

Mul(a, b) ==
  CASE a.t = "other" \/ b.t = "other" -> Other
    [] a.t = "nan" \/ b.t = "nan" -> NaN
    [] a.t = "inf" /\ b.t = "inf" -> Inf(a.n * b.n)
    [] a.t = "inf" -> IF b.n = 0 THEN NaN ELSE Inf(a.n * Sgn(b.n))
    [] b.t = "inf" -> IF a.n = 0 THEN NaN ELSE Inf(b.n * Sgn(a.n))
    [] OTHER -> Num(a.n * b.n, a.d * b.d)

Div(a, b) ==
  CASE a.t = "other" \/ b.t = "other" -> Other
    [] a.t = "nan" \/ b.t = "nan" -> NaN
    [] a.t = "inf" /\ b.t = "inf" -> NaN
    [] a.t = "inf" -> Inf(a.n * Sgn(b.n))
    [] b.t = "inf" -> IntV(0)
    [] b.n = 0 -> IF a.n = 0 THEN NaN ELSE Inf(Sgn(a.n))
    [] OTHER -> Num(Sgn(b.n) * a.n * b.d, a.d * Abs(b.n))

--------------------------------------------------------------------------
(* Number to text: String(v), as in '(' + refVal + ')' *)

RECURSIVE NatToChars(_)
NatToChars(n) ==
  IF n < 10 THEN <<Digits[n + 1]>>
  ELSE NatToChars(n \div 10) \o <<Digits[(n % 10) + 1]>>

RECURSIVE Pow10(_)
Pow10(k) == IF k = 0 THEN 1 ELSE 10 * Pow10(k - 1)

MaxFracDigits == 6

RECURSIVE PadZeros(_, _)
PadZeros(s, k) == IF Len(s) >= k THEN s ELSE PadZeros(<<"0">> \o s, k)

(* The characters of a finite number; <<"?">> stands for a rendering that  *)
(* is not modelled (exponent form, a decimal that does not terminate).     *)
FiniteToChars(v) ==
  LET sign == IF v.n < 0 THEN <<"-">> ELSE <<>>
      a == Abs(v.n)
  IN IF v.d = 1 THEN sign \o NatToChars(a)
     ELSE IF \E k \in 1..MaxFracDigits : Pow10(k) % v.d = 0
          THEN LET k == CHOOSE j \in 1..MaxFracDigits :
                          /\ Pow10(j) % v.d = 0
                          /\ \A i \in 1..(j - 1) : Pow10(i) % v.d # 0
                   scaled == a * (Pow10(k) \div v.d)
               IN sign \o NatToChars(scaled \div Pow10(k)) \o <<".">>
                       \o PadZeros(NatToChars(scaled % Pow10(k)), k)
          ELSE <<"?">>

ToChars(v) ==
  CASE v.t = "str" -> v.s
    [] v.t = "num" -> FiniteToChars(v)
    [] v.t = "inf" -> (IF v.n < 0 THEN <<"-">> ELSE <<>>)
                      \o <<"I", "n", "f", "i", "n", "i", "t", "y">>
    [] v.t = "nan" -> <<"N", "a", "N">>
    [] v.t = "undef" -> <<"u", "n", "d", "e", "f", "i", "n", "e", "d">>
    [] OTHER -> <<"?">>

--------------------------------------------------------------------------
(* Text to number: Number(s) and isNaN(s) on a string *)

RECURSIVE DigitsToNat(_, _)
DigitsToNat(s, acc) ==
  IF s = <<>> THEN acc ELSE DigitsToNat(Tail(s), 10 * acc + DigitVal(Head(s)))

AllDigits(s) == \A i \in 1..Len(s) : IsDigit(s[i])

(* An unsigned decimal: digits, digits.digits, digits. or .digits *)
IsUnsignedDecimal(s) ==
  /\ \A i \in 1..Len(s) : IsDigit(s[i]) \/ s[i] = "."
  /\ Cardinality({i \in 1..Len(s) : s[i] = "."}) <= 1
  /\ \E i \in 1..Len(s) : IsDigit(s[i])

UnsignedDecimalValue(s) ==
  IF AllDigits(s) THEN IntV(DigitsToNat(s, 0))
  ELSE LET p == CHOOSE i \in 1..Len(s) : s[i] = "."
           frac == SubSeq(s, p + 1, Len(s))
       IN Num(DigitsToNat(SubSeq(s, 1, p - 1) \o frac, 0), Pow10(Len(frac)))

InfinityWord == <<"I", "n", "f", "i", "n", "i", "t", "y">>

(* Number(s): the exponent and radix forms (1e3, 0x10, 0b1, 0o7) are       *)
(* outside the modelled fragment and give Other.                           *)
StringToNumber(s) ==
  LET u == Trim(s)
      signed == u # <<>> /\ Head(u) \in {"+", "-"}
      body == IF signed THEN Tail(u) ELSE u
      sg == IF signed /\ Head(u) = "-" THEN -1 ELSE 1
  IN IF u = <<>> THEN IntV(0)
     ELSE IF body = InfinityWord THEN Inf(sg)
     ELSE IF IsUnsignedDecimal(body)
          THEN (IF sg = 1 THEN UnsignedDecimalValue(body)
                ELSE Neg(UnsignedDecimalValue(body)))
     ELSE IF body # <<>> /\ (IsDigit(Head(body)) \/ Head(body) = ".")
             /\ \E i \in 1..Len(body) :
                    body[i] \in {"e", "E", "x", "X", "b", "B", "o", "O"}
          THEN Other
     ELSE NaN

IsNaNString(s) == StringToNumber(s).t = "nan"

--------------------------------------------------------------------------
(* The reference pattern /[A-E][1-5]/g and the validation pattern *)

RefLetters == {"A", "B", "C", "D", "E"}
RefDigits == {"1", "2", "3", "4", "5"}

(* raw.match(/[A-E][1-5]/g) || [] : every match, left to right, without    *)
(* overlap, repeated references kept.                                      *)
RECURSIVE MatchRefs(_)
MatchRefs(s) ==
  IF Len(s) < 2 THEN <<>>
  ELSE IF s[1] \in RefLetters /\ s[2] \in RefDigits
       THEN <<SubSeq(s, 1, 2)>> \o MatchRefs(Slice(s, 2))
       ELSE MatchRefs(Tail(s))

(* /^[-+*/().\d\s]+$/.test(expr) *)
AllowedChar(c) == IsDigit(c) \/ IsSpace(c) \/ c \in {"-", "+", "*", "/", "(", ")", "."}

ValidExpr(s) == s # <<>> /\ \A i \in 1..Len(s) : AllowedChar(s[i])

--------------------------------------------------------------------------
(* Function('return ' + expr)() on a text that passed the validation       *)
(* pattern: JavaScript's tokens and expression grammar over digits, ".",   *)
(* spaces, parentheses and + - * /.                                        *)

Tok(k, v) == [k |-> k, v |-> v]

RECURSIVE DigitRun(_)
DigitRun(s) == IF s # <<>> /\ IsDigit(Head(s)) THEN 1 + DigitRun(Tail(s)) ELSE 0

RECURSIVE OctalToNat(_, _)
OctalToNat(s, acc) ==
  IF s = <<>> THEN acc ELSE OctalToNat(Tail(s), 8 * acc + DigitVal(Head(s)))

(* The numeric literal at the head of s, as [len, v]. A literal of several *)
(* digits that starts with 0 is a legacy octal literal when all its digits *)
(* are below 8 (and then takes no fraction), a decimal one otherwise.      *)
NumericLiteral(s) ==
  LET ip == DigitRun(s)
      intPart == SubSeq(s, 1, ip)
      legacyOctal == ip > 1 /\ s[1] = "0"
                     /\ \A i \in 1..ip : DigitVal(s[i]) < 8
      hasDot == ~legacyOctal /\ Len(s) > ip /\ s[ip + 1] = "."
      fp == IF hasDot THEN DigitRun(Slice(s, ip + 1)) ELSE 0
      len == ip + (IF hasDot THEN 1 + fp ELSE 0)
  IN [len |-> len,
      v |-> IF legacyOctal THEN IntV(OctalToNat(intPart, 0))
            ELSE UnsignedDecimalValue(SubSeq(s, 1, len))]

RECURSIVE Tokenize(_)
Tokenize(s) ==
  IF s = <<>> THEN <<>>
  ELSE LET c == Head(s)
           c2 == IF Len(s) > 1 THEN s[2] ELSE ""
       IN CASE IsSpace(c) -> Tokenize(Tail(s))
            [] IsDigit(c) \/ (c = "." /\ IsDigit(c2)) ->
                 LET lit == NumericLiteral(s)
                 IN <<Tok("num", lit.v)>> \o Tokenize(Slice(s, lit.len))
            [] c = "+" /\ c2 = "+" -> <<Tok("++", Undefined)>> \o Tokenize(Slice(s, 2))
            [] c = "-" /\ c2 = "-" -> <<Tok("--", Undefined)>> \o Tokenize(Slice(s, 2))
            [] c = "*" /\ c2 = "*" -> <<Tok("other", Undefined)>> \o Tokenize(Slice(s, 2))
            [] c = "/" /\ c2 \in {"/", "*"} ->
                 <<Tok("other", Undefined)>> \o Tokenize(Slice(s, 2))
            [] OTHER -> <<Tok(c, Undefined)>> \o Tokenize(Tail(s))

(* A "/" where an operand is expected starts a regular expression literal, *)
(* which is outside the modelled fragment, as are ** and comments.         *)
OutsideFragment(toks) ==
  \E i \in 1..Len(toks) :
     \/ toks[i].k = "other"
     \/ /\ toks[i].k = "/"
        /\ (i = 1 \/ toks[i - 1].k \in {"+", "-", "*", "/", "(", "++", "--"})

Fail == [ok |-> FALSE, v |-> Undefined, i |-> 0]
Done(v, i) == [ok |-> TRUE, v |-> v, i |-> i]

RECURSIVE ParseAdditive(_, _)
RECURSIVE AdditiveRest(_, _)
RECURSIVE ParseMultiplicative(_, _)
RECURSIVE MultiplicativeRest(_, _)
RECURSIVE ParseUnary(_, _)

(* A parenthesised expression r, once its closing parenthesis is read *)
Closed(toks, r) ==
  IF r.ok /\ r.i <= Len(toks) /\ toks[r.i].k = ")" THEN Done(r.v, r.i + 1) ELSE Fail

(* number | ( expression ) *)
ParsePrimary(toks, i) ==
  IF i > Len(toks) THEN Fail
  ELSE IF toks[i].k = "num" THEN Done(toks[i].v, i + 1)
  ELSE IF toks[i].k = "(" THEN Closed(toks, ParseAdditive(toks, i + 1))
  ELSE Fail

(* The operand r under a unary minus *)
Negated(r) == IF r.ok THEN Done(Neg(r.v), r.i) ELSE Fail

ParseUnary(toks, i) ==
  IF i > Len(toks) THEN Fail
  ELSE IF toks[i].k = "+" THEN ParseUnary(toks, i + 1)
  ELSE IF toks[i].k = "-" THEN Negated(ParseUnary(toks, i + 1))
  ELSE ParsePrimary(toks, i)

(* The left operand acc combined with the right operand r *)
Applied(op, acc, r) ==
  IF ~r.ok THEN Fail
  ELSE Done(CASE op = "*" -> Mul(acc, r.v)
              [] op = "/" -> Div(acc, r.v)
              [] op = "+" -> Add(acc, r.v)
              [] OTHER -> Sub(acc, r.v),
            r.i)

(* * and / associate to the left: l is the operand read so far *)
MultiplicativeRest(toks, l) ==
  IF ~l.ok THEN Fail
  ELSE IF l.i <= Len(toks) /\ toks[l.i].k \in {"*", "/"}
  THEN MultiplicativeRest(toks, Applied(toks[l.i].k, l.v, ParseUnary(toks, l.i + 1)))
  ELSE l

ParseMultiplicative(toks, i) == MultiplicativeRest(toks, ParseUnary(toks, i))

(* + and - associate to the left and bind less tightly than * and / *)
AdditiveRest(toks, l) ==
  IF ~l.ok THEN Fail
  ELSE IF l.i <= Len(toks) /\ toks[l.i].k \in {"+", "-"}
  THEN AdditiveRest(toks, Applied(toks[l.i].k, l.v, ParseMultiplicative(toks, l.i + 1)))
  ELSE l

ParseAdditive(toks, i) == AdditiveRest(toks, ParseMultiplicative(toks, i))

(* The whole token list must be one expression *)
Completed(toks, r) ==
  IF r.ok /\ r.i = Len(toks) + 1
  THEN [ok |-> TRUE, v |-> r.v]
  ELSE [ok |-> FALSE, v |-> Undefined]

EvalTokens(toks) ==
  IF OutsideFragment(toks) THEN [ok |-> TRUE, v |-> Other]
  ELSE Completed(toks, ParseAdditive(toks, 1))

(* [ok, v]: ok is FALSE when the call throws (a SyntaxError, or the        *)
(* TypeError of calling a number, as in 1(2)).                             *)
EvalExpr(expr) == EvalTokens(Tokenize(expr))

--------------------------------------------------------------------------
(* The grid *)

COLS == 5
ROWS == 5

Letters == <<"A", "B", "C", "D", "E", "F", "G", "H", "I", "J", "K", "L", "M",
             "N", "O", "P", "Q", "R", "S", "T", "U", "V", "W", "X", "Y", "Z">>

(* colNames: String.fromCharCode(65 + i) for i < cols *)
ColNames(nc) == [i \in 1..nc |-> Letters[i]]

(* id = c + r *)
CellId(c, r) == <<c>> \o NatToChars(r)

NoError == "null"

(* new Cell(id) *)
NewCell ==
  [raw |-> <<>>, value |-> EmptyStr, dependencies |-> {},
   dependents |-> <<>>, error |-> NoError]

(* new Spreadsheet(nc, nr): this.cells *)
NewCells(nc, nr) ==
  [id \in {CellId(ColNames(nc)[i], r) : i \in 1..nc, r \in 1..nr} |-> NewCell]

(* A Set keeps insertion order: add appends an absent element, delete      *)
(* removes it and keeps the order of the others.                           *)
SetAdd(q, x) == IF \E i \in 1..Len(q) : q[i] = x THEN q ELSE Append(q, x)

SetDelete(q, x) == SelectSeq(q, LAMBDA y : y # x)

Has(cs, id) == id \in DOMAIN cs

(* this.cells is a plain object ({}, line 18): a lookup this.cells[id]     *)
(* with a name no cell has, and that Object.prototype has, gives the       *)
(* inherited property, which is truthy and is no Cell: it has no value,    *)
(* dependencies or dependents. Two such names: "toString", "__proto__".    *)
(* The references and dependents the engine looks up are two-character     *)
(* identifiers, never such a name; the identifier given to setCell and     *)
(* getCell may be one.                                                     *)
InheritedNames ==
  { <<"t", "o", "S", "t", "r", "i", "n", "g">>,
    <<"_", "_", "p", "r", "o", "t", "o", "_", "_">> }

(* What a call threw *)
TypeErrorThrown == [t |-> "throw", n |-> 0, d |-> 1, s |-> <<"T", "y", "p", "e", "E", "r", "r", "o", "r">>]

--------------------------------------------------------------------------
(* _evaluateCell and _updateDependents.                                    *)
(* A run of setCell is a record M:                                         *)
(*   cells    this.cells                                                   *)
(*   visited  the Set passed to _evaluateCell                              *)
(*   seen     the Set passed to _updateDependents                          *)
(*   order    the order in which a dependents set is iterated             *)
(*   depth    the calls of the two methods now on the stack; hung is set   *)
(*            when a call is made MaxDepth deep. Every loop of the two     *)
(*            methods runs over a finite array or Set, so a run that does  *)
(*            not return is one whose recursion does not stop, and with    *)
(*            three cells addressed a recursion that stops is at most      *)
(*            7 deep (3 calls of _updateDependents that go on to their     *)
(*            dependents, 4 of _evaluateCell).                             *)
(*   circ, evald, residue  what the run did: the cells assigned '#CIRC',   *)
(*            the cells evaluated, and what the top-level evaluations left *)
(*            in their visited sets                                        *)
(*   texts    for each cell evaluated as a formula, the text (expr) its    *)
(*            latest evaluation validated and evaluated                    *)
(*   thrown   TRUE when the call threw instead of returning                *)

MaxDepth == 10

NewRun(cs, order) ==
  [cells |-> cs, visited |-> {}, seen |-> {}, order |-> order, depth |-> 0,
   hung |-> FALSE, circ |-> {}, evald |-> {}, residue |-> {},
   texts |-> [c \in {} |-> <<>>], thrown |-> FALSE]

(* A variant that also takes the circular cell out of the graph by         *)
(* emptying its dependencies                                               *)
MarkCircularDetached(M, cellId) ==
  [M EXCEPT !.cells[cellId].value = CIRC,
            !.cells[cellId].error = "Circular reference",
            !.cells[cellId].dependencies = {},
            !.circ = @ \cup {cellId}]

(* lines 54-58 *)
MarkCircular(M, cellId) ==
  [M EXCEPT !.cells[cellId].value = CIRC,
            !.cells[cellId].error = "Circular reference",
            !.circ = @ \cup {cellId}]

(* A variant that keeps a numeric text as text *)
PlainValueAsText(raw) == Str(raw)

(* lines 62-72: a plain value *)
PlainValue(raw) ==
  IF raw = <<>> THEN EmptyStr
  ELSE IF ~IsNaNString(raw) THEN StringToNumber(raw)
  ELSE Str(raw)

(* A variant that leaves the cell in the in-progress set (no line 71) *)
EvaluatePlainKeepVisited(M, cellId, raw) ==
  [M EXCEPT !.cells[cellId].value = PlainValue(raw),
            !.cells[cellId].error = NoError]

EvaluatePlain(M, cellId, raw) ==
  [M EXCEPT !.cells[cellId].value = PlainValue(raw),
            !.cells[cellId].error = NoError,
            !.visited = @ \ {cellId}]

(* lines 78-81: record the references as edges *)
RECURSIVE AddEdges(_, _, _)
AddEdges(cs, cellId, refs) ==
  IF refs = <<>> THEN cs
  ELSE LET ref == Head(refs)
           cs1 == [cs EXCEPT ![cellId].dependencies = @ \cup {ref}]
           cs2 == IF Has(cs1, ref)
                  THEN [cs1 EXCEPT ![ref].dependents = SetAdd(@, cellId)]
                  ELSE cs1
       IN AddEdges(cs2, cellId, Tail(refs))

(* lines 87-89: the value substituted for a reference *)
RefValue(cs, ref) ==
  LET v0 == IF Has(cs, ref) THEN cs[ref].value ELSE Undefined
      v1 == IF v0 = Undefined \/ v0 = EmptyStr THEN IntV(0) ELSE v0
  IN IF v1.t = "str" /\ IsNaNString(v1.s) THEN IntV(0) ELSE v1

(* A variant in which the error thrown by the evaluation is not caught as  *)
(* the cell's error: the cell is given what the call produced.             *)
OutcomeUncaught(r) == [value |-> r.v, error |-> NoError]

(* lines 97 and 99-100: what the evaluation r leaves in the cell *)
Outcome(r) ==
  IF r.ok THEN [value |-> r.v, error |-> NoError]
  ELSE [value |-> ERR, error |-> "SyntaxError"]

(* lines 92-101: validate and evaluate the substituted text *)
FormulaResult(expr) ==
  IF \E i \in 1..Len(expr) : expr[i] = "?" THEN [value |-> Other, error |-> NoError]
  ELSE IF ~ValidExpr(expr) THEN [value |-> ERR, error |-> "Invalid formula"]
  ELSE Outcome(EvalExpr(expr))

RECURSIVE Evaluate(_, _)
RECURSIVE Substitute(_, _, _)

(* lines 87-90: the first reference of refs, evaluated in run M, replaced  *)
(* in expr by its value in parentheses; then the other references          *)
SubstituteValue(M, refs, expr) ==
  Substitute(M, Tail(refs),
             ReplaceAll(expr, Head(refs),
                        <<"(">> \o ToChars(RefValue(M.cells, Head(refs))) \o <<")">>))

(* A variant that substitutes the values the references hold, without      *)
(* evaluating them first.                                                  *)
SubstituteCached(M, refs, expr) ==
  IF refs = <<>> THEN [run |-> M, expr |-> expr]
  ELSE SubstituteValue(M, refs, expr)

(* lines 84-91: evaluate each reference, then substitute its value *)
Substitute(M, refs, expr) ==
  IF refs = <<>> THEN [run |-> M, expr |-> expr]
  ELSE SubstituteValue(Evaluate(M, Head(refs)), refs, expr)

(* A variant that does not clear the error of a cell whose evaluation     *)
(* succeeded (no line 97)                                                  *)
StoreResultKeepError(M, cellId, res) ==
  [M EXCEPT !.cells[cellId].value = res.value,
            !.cells[cellId].error = IF res.error # NoError THEN res.error ELSE @,
            !.visited = @ \ {cellId}]

(* lines 97-102: store the result and leave the in-progress set *)
StoreResult(M, cellId, res) ==
  [M EXCEPT !.cells[cellId].value = res.value,
            !.cells[cellId].error = res.error,
            !.visited = @ \ {cellId}]

(* lines 92-102, on the run and text the substitution produced *)
Finish(sub, cellId) ==
  StoreResult([sub.run EXCEPT !.texts = [c \in DOMAIN @ \cup {cellId} |->
                                            IF c = cellId THEN sub.expr ELSE @[c]]],
              cellId, FormulaResult(sub.expr))

(* lines 75-102: a formula *)
EvaluateFormula(M, cellId, raw) ==
  Finish(Substitute([M EXCEPT !.cells = AddEdges(@, cellId, MatchRefs(raw))],
                    MatchRefs(raw), Slice(raw, 1)),
         cellId)

(* _evaluateCell(cellId, visited), lines 51-103 *)
EvaluateBody(M, cellId) ==
  IF cellId \in M.visited THEN MarkCircular(M, cellId)
  ELSE LET M1 == [M EXCEPT !.visited = @ \cup {cellId}]
           raw == Trim(M1.cells[cellId].raw)
       IN IF ~StartsWith(raw, <<"=">>)
          THEN EvaluatePlain(M1, cellId, raw)
          ELSE EvaluateFormula(M1, cellId, raw)

(* The return of a call: one frame less on the stack *)
Return(M) == [M EXCEPT !.depth = @ - 1]

Evaluate(M, cellId) ==
  IF ~Has(M.cells, cellId) THEN M
  ELSE IF M.hung \/ M.depth >= MaxDepth THEN [M EXCEPT !.hung = TRUE]
  ELSE Return(EvaluateBody([M EXCEPT !.depth = @ + 1,
                                     !.evald = @ \cup {cellId}], cellId))

(* What a top-level evaluation left in its visited set *)
KeepResidue(M) == [M EXCEPT !.residue = @ \cup M.visited]

(* The iteration order of a dependents set: "ins" is the Set's own         *)
(* (insertion) order, which is what the code does; a priority list of cell *)
(* identifiers is another order an implementation might pick: the          *)
(* dependents listed in it first, in its order, then the others.           *)
InsertionOrder == [ins |-> TRUE, prio |-> <<>>]
Priority(p) == [ins |-> FALSE, prio |-> p]

IterOrder(q, order) ==
  IF order.ins THEN q
  ELSE SelectSeq(order.prio, LAMBDA x : \E i \in 1..Len(q) : q[i] = x)
       \o SelectSeq(q, LAMBDA x : \A i \in 1..Len(order.prio) : order.prio[i] # x)

RECURSIVE UpdateDependents(_, _)
RECURSIVE ForEachDependent(_, _, _)

(* A variant without the check of the propagated set *)
UpdateDependentsUnchecked(M, cellId) ==
  IF M.hung \/ M.depth >= MaxDepth THEN [M EXCEPT !.hung = TRUE]
  ELSE Return(ForEachDependent([M EXCEPT !.depth = @ + 1,
                                         !.seen = @ \cup {cellId}],
                               cellId, {}))

(* A variant in which the sweep does not go on from a cell in error *)
UpdateDependentsStopAtError(M, cellId) ==
  IF M.hung \/ M.depth >= MaxDepth THEN [M EXCEPT !.hung = TRUE]
  ELSE IF cellId \in M.seen \/ M.cells[cellId].error # NoError THEN M
  ELSE Return(ForEachDependent([M EXCEPT !.depth = @ + 1,
                                         !.seen = @ \cup {cellId}],
                               cellId, {}))

(* _updateDependents(cellId, visited), lines 105-113 *)
UpdateDependents(M, cellId) ==
  IF M.hung \/ M.depth >= MaxDepth THEN [M EXCEPT !.hung = TRUE]
  ELSE IF cellId \in M.seen THEN M
  ELSE Return(ForEachDependent([M EXCEPT !.depth = @ + 1,
                                         !.seen = @ \cup {cellId}],
                               cellId, {}))

(* lines 110-111: evaluate the dependent with a fresh in-progress set,     *)
(* then propagate from it                                                  *)
Refresh(M, dep) ==
  UpdateDependents(KeepResidue(Evaluate([M EXCEPT !.visited = {}], dep)), dep)

(* The dependents of cellId, in iteration order, that are not in taken *)
Remaining(M, cellId, taken) ==
  SelectSeq(IterOrder(M.cells[cellId].dependents, M.order),
            LAMBDA x : x \notin taken)

(* lines 109-112: the loop over cell.dependents, read live *)
ForEachDependent(M, cellId, taken) ==
  IF Remaining(M, cellId, taken) = <<>> \/ M.hung THEN M
  ELSE ForEachDependent(Refresh(M, Head(Remaining(M, cellId, taken))), cellId,
                        taken \cup {Head(Remaining(M, cellId, taken))})

(* lines 34-40: store the raw text, clear the error, detach the old edges *)
RECURSIVE DetachAll(_, _, _)
DetachAll(cs, cellId, deps) ==
  IF deps = {} THEN cs
  ELSE LET dep == CHOOSE x \in deps : TRUE
           cs1 == IF Has(cs, dep)
                  THEN [cs EXCEPT ![dep].dependents = SetDelete(@, cellId)]
                  ELSE cs
       IN DetachAll(cs1, cellId, deps \ {dep})

(* A variant that leaves the cell in the dependents of its old dependencies *)
ClearCellNoDetach(cs, cellId, raw) ==
  [cs EXCEPT ![cellId].raw = raw, ![cellId].error = NoError,
             ![cellId].dependencies = {}]

(* A variant that does not clear the dependencies set *)
ClearCellKeepDependencies(cs, cellId, raw) ==
  LET cs1 == [cs EXCEPT ![cellId].raw = raw, ![cellId].error = NoError]
  IN DetachAll(cs1, cellId, cs1[cellId].dependencies)

ClearCell(cs, cellId, raw) ==
  LET cs1 == [cs EXCEPT ![cellId].raw = raw, ![cellId].error = NoError]
      cs2 == DetachAll(cs1, cellId, cs1[cellId].dependencies)
  IN [cs2 EXCEPT ![cellId].dependencies = {}]

(* A variant that creates the cell when the identifier names none *)
SetCellRunCreating(cs, cellId, raw, order) ==
  UpdateDependents(
    KeepResidue(Evaluate(NewRun(ClearCell([c \in DOMAIN cs \cup {cellId} |->
                                             IF Has(cs, c) THEN cs[c] ELSE NewCell],
                                          cellId, raw),
                                order),
                         cellId)),
    cellId)

(* setCell(cellId, valueOrFormula), lines 31-45, as a run. With an         *)
(* inherited name the guard of line 32 lets the call through, lines 34-35  *)
(* assign to the inherited object, which is no part of the grid, and the   *)
(* loop of line 37 throws a TypeError, its dependencies being undefined.   *)
SetCellRun(cs, cellId, raw, order) ==
  IF ~Has(cs, cellId)
  THEN [NewRun(cs, order) EXCEPT !.thrown = cellId \in InheritedNames]
  ELSE UpdateDependents(
         KeepResidue(Evaluate(NewRun(ClearCell(cs, cellId, raw), order), cellId)),
         cellId)

(* getCell(cellId), lines 47-49 *)
GetCellValue(cs, cellId) == IF Has(cs, cellId) THEN cs[cellId].value ELSE Undefined

--------------------------------------------------------------------------
(* The program: a grid and its callers.                                    *)
(*   cols, rows, cells  the fields of the Spreadsheet                      *)
(*   status             "ready", or "hung" in a call that does not return  *)
(*   ret                what the latest call returned, or what it threw    *)

VARIABLES cols, rows, cells, status, ret

vars == <<cols, rows, cells, status, ret>>

A1 == <<"A", "1">>
B1 == <<"B", "1">>
C1 == <<"C", "1">>
F1 == <<"F", "1">>

(* The callers address three cells of the 5 x 5 grid and one identifier    *)
(* that names no cell of it.                                               *)
LiveIds == {A1, B1, C1}
CallIds == LiveIds \cup {F1}

(* "", "1", "10", "=A1+1", "=B1+1", "=C1+1", "=A1+B1", "=B1" *)
Raws ==
  { <<>>,
    <<"1">>,
    <<"1", "0">>,
    <<"=", "A", "1", "+", "1">>,
    <<"=", "B", "1", "+", "1">>,
    <<"=", "C", "1", "+", "1">>,
    <<"=", "A", "1", "+", "B", "1">>,
    <<"=", "B", "1">> }

(* new Spreadsheet(COLS, ROWS), line 118 *)
Init ==
  /\ cols = COLS
  /\ rows = ROWS
  /\ cells = NewCells(COLS, ROWS)
  /\ status = "ready"
  /\ ret = Undefined

(* A call of setCell whose recursion does not stop does not return: the    *)
(* program is hung and takes no further call.                              *)
SetCell(id, raw) ==
  /\ status = "ready"
  /\ LET M == SetCellRun(cells, id, raw, InsertionOrder)
     IN /\ cells' = M.cells
        /\ status' = IF M.hung THEN "hung" ELSE "ready"
        /\ ret' = IF M.thrown THEN TypeErrorThrown ELSE Undefined
  /\ UNCHANGED <<cols, rows>>

(* A variant that evaluates the cell before it returns its value *)
GetCellEvaluating(id) ==
  /\ status = "ready"
  /\ LET M == Evaluate(NewRun(cells, InsertionOrder), id)
     IN /\ cells' = M.cells
        /\ ret' = GetCellValue(M.cells, id)
  /\ UNCHANGED <<cols, rows, status>>

GetCell(id) ==
  /\ status = "ready"
  /\ ret' = GetCellValue(cells, id)
  /\ UNCHANGED <<cols, rows, cells, status>>

Next == \E id \in CallIds, raw \in Raws : SetCell(id, raw)

Spec == Init /\ [][Next]_vars

(* The same grid with inputs that exercise literals and arithmetic:        *)
(* "", " 42 ", "hello", "5", "3", "=A1*B1+2", "=1/0", "=A1+1", "=8/2/2",   *)
(* "=DROP TABLE", "=(1"                                                    *)
ArithRaws ==
  { <<>>,
    <<" ", "4", "2", " ">>,
    <<"h", "e", "l", "l", "o">>,
    <<"5">>,
    <<"3">>,
    <<"=", "A", "1", "*", "B", "1", "+", "2">>,
    <<"=", "1", "/", "0">>,
    <<"=", "A", "1", "+", "1">>,
    <<"=", "8", "/", "2", "/", "2">>,
    <<"=", "D", "R", "O", "P", " ", "T", "A", "B", "L", "E">>,
    <<"=", "(", "1">> }

NextArith == \E id \in LiveIds, raw \in ArithRaws : SetCell(id, raw)

SpecArith == Init /\ [][NextArith]_vars

(* Grids of other sizes: new Spreadsheet(nc, nr)                           *)
(* "", "1", "=A1+1", "=B1", "=C1+1", "=F1+1"                               *)
GridSizes == {<<2, 2>>, <<6, 1>>, <<5, 5>>}

GridRaws ==
  { <<>>,
    <<"1">>,
    <<"=", "A", "1", "+", "1">>,
    <<"=", "B", "1">>,
    <<"=", "C", "1", "+", "1">>,
    <<"=", "F", "1", "+", "1">> }

InitGrid ==
  /\ \E g \in GridSizes :
        /\ cols = g[1]
        /\ rows = g[2]
        /\ cells = NewCells(g[1], g[2])
  /\ status = "ready"
  /\ ret = Undefined

NextGrid == \E id \in {A1, B1, F1}, raw \in GridRaws : SetCell(id, raw)

SpecGrid == InitGrid /\ [][NextGrid]_vars

(* Grids of other sizes with callers that also read and that give         *)
(* inherited names                                                         *)
NextGridRead ==
  \/ \E id \in {A1, B1, F1} \cup InheritedNames, raw \in GridRaws : SetCell(id, raw)
  \/ \E id \in {A1, B1, F1} \cup InheritedNames : GetCell(id)

SpecGridRead == InitGrid /\ [][NextGridRead]_vars

(* Callers that also read: setCell and getCell on the 5 x 5 grid           *)
(* "", "1", "=A1+1", "=B1+1", "=(1"                                        *)
ReadRaws ==
  { <<>>,
    <<"1">>,
    <<"=", "A", "1", "+", "1">>,
    <<"=", "B", "1", "+", "1">>,
    <<"=", "(", "1">> }

NextRead ==
  \/ \E id \in CallIds \cup InheritedNames, raw \in ReadRaws : SetCell(id, raw)
  \/ \E id \in CallIds \cup InheritedNames : GetCell(id)

SpecRead == Init /\ [][NextRead]_vars

(* Callers whose formulas mention a reference twice and form diamonds:     *)
(* "", "1", "=A1+1", "=A1+A1", "=A1+B1", "=B1+1"                           *)
ShapeRaws ==
  { <<>>,
    <<"1">>,
    <<"=", "A", "1", "+", "1">>,
    <<"=", "A", "1", "+", "A", "1">>,
    <<"=", "A", "1", "+", "B", "1">>,
    <<"=", "B", "1", "+", "1">> }

NextShapes == \E id \in LiveIds, raw \in ShapeRaws : SetCell(id, raw)

SpecShapes == Init /\ [][NextShapes]_vars

--------------------------------------------------------------------------
(* Notions the properties are stated with *)

(* No reachable cell holds a value outside the modelled fragment.          *)
InModelledFragment == \A id \in DOMAIN cells : cells[id].value.t # "other"

Elems(q) == {q[i] : i \in 1..Len(q)}

ValuesAndErrors(cs) == [id \in DOMAIN cs |-> <<cs[id].value, cs[id].error>>]

IsFormula(raw) == StartsWith(Trim(raw), <<"=">>)

(* The cells reachable from the cells of S in one or more steps along the  *)
(* edges given by next (a function from a cell to a set of cells).         *)
RECURSIVE Closure(_, _, _)
Closure(cs, next, S) ==
  LET T == S \cup UNION {next[x] \cap DOMAIN cs : x \in S}
  IN IF T = S THEN S ELSE Closure(cs, next, T)

DependenciesOf(cs) == [id \in DOMAIN cs |-> cs[id].dependencies]
DependentsOf(cs) == [id \in DOMAIN cs |-> Elems(cs[id].dependents)]

ReachableBy(cs, next, id) == Closure(cs, next, next[id] \cap DOMAIN cs)

(* id is on a dependency cycle: it depends, directly or not, on itself *)
OnCycle(cs, id) == id \in ReachableBy(cs, DependenciesOf(cs), id)

--------------------------------------------------------------------------
(* C1: in every state a caller can observe, for all cells A and B of the   *)
(* grid, B is in A.dependencies if and only if A is in B.dependents.       *)
MutualEdges ==
  status = "ready" =>
    \A a \in DOMAIN cells, b \in DOMAIN cells :
       b \in cells[a].dependencies <=> a \in Elems(cells[b].dependents)

(* Calls of setCell have left edges in both directions: A1 refers to       *)
(* itself and B1 refers to A1, and nothing refers to C1.                   *)
MutualEdgesWitness ==
  /\ status = "ready"
  /\ cells[A1].raw = <<"=", "A", "1", "+", "1">>
  /\ cells[A1].dependencies = {A1}
  /\ cells[B1].dependencies = {A1}
  /\ Elems(cells[A1].dependents) = {A1, B1}
  /\ cells[C1].dependents = <<>>

(* C2: after a setCell call that creates or leaves a dependency cycle,     *)
(* every cell on the cycle has the value '#CIRC' and a non-null error.     *)
CycleCellsCircular ==
  status = "ready" =>
    \A id \in DOMAIN cells :
       OnCycle(cells, id) =>
          cells[id].value = CIRC /\ cells[id].error # NoError

(* C3: after any setCell call, every cell that is not on a dependency      *)
(* cycle has the value its raw text gives over the current values of its   *)
(* direct dependencies.                                                    *)
RECURSIVE SubstituteCurrent(_, _, _)
SubstituteCurrent(cs, refs, expr) ==
  IF refs = <<>> THEN expr
  ELSE SubstituteCurrent(cs, Tail(refs),
         ReplaceAll(expr, Head(refs),
                    <<"(">> \o ToChars(RefValue(cs, Head(refs))) \o <<")">>))

ValueFromDependencies(cs, id) ==
  LET raw == Trim(cs[id].raw)
  IN IF ~StartsWith(raw, <<"=">>) THEN PlainValue(raw)
     ELSE FormulaResult(SubstituteCurrent(cs, MatchRefs(raw), Slice(raw, 1))).value

ConsistentValues ==
  status = "ready" =>
    \A id \in DOMAIN cells :
       ~OnCycle(cells, id) => cells[id].value = ValueFromDependencies(cells, id)

(* The cells that depend, directly or not, on a cell on a cycle *)
BelowCycle(cs, id) ==
  \E c \in ReachableBy(cs, DependenciesOf(cs), id) : OnCycle(cs, c)

(* The same where no dependency cycle is involved: it holds, so only       *)
(* cycles break C3.                                                        *)
ConsistentValuesAcyclic ==
  status = "ready" =>
    \A id \in DOMAIN cells :
       ~OnCycle(cells, id) /\ ~BelowCycle(cells, id)
          => cells[id].value = ValueFromDependencies(cells, id)

(* C4: every setCell call terminates, cycles, self-references and diamonds *)
(* included: the recursion of _evaluateCell and _updateDependents stops    *)
(* (it never gets MaxDepth deep).                                          *)
SetCellReturns == status = "ready"

(* Calls have returned that left every addressed cell on a dependency      *)
(* cycle, one of them with a formula of two references.                    *)
SetCellReturnsWitness ==
  /\ status = "ready"
  /\ \A id \in LiveIds : OnCycle(cells, id)
  /\ \E id \in LiveIds : Cardinality(cells[id].dependencies) = 2

(* C5: from any reachable state, calling setCell(id, raw) twice in a row   *)
(* leaves every cell's value and error as they were after the first call.  *)
SetCellIdempotent ==
  status = "ready" =>
    \A id \in CallIds, raw \in Raws :
       LET once == SetCellRun(cells, id, raw, InsertionOrder).cells
           twice == SetCellRun(once, id, raw, InsertionOrder).cells
       IN ValuesAndErrors(twice) = ValuesAndErrors(once)

(* The first call changes a value of a cell on a cycle that has a          *)
(* dependent outside it.                                                   *)
SetCellIdempotentWitness ==
  /\ status = "ready"
  /\ \E id \in LiveIds, raw \in Raws :
        LET once == SetCellRun(cells, id, raw, InsertionOrder).cells
        IN /\ ValuesAndErrors(once) # ValuesAndErrors(cells)
           /\ OnCycle(once, id)
           /\ \E c \in LiveIds : ~OnCycle(once, c) /\ BelowCycle(once, c)

(* C6: the values and errors after a setCell call do not depend on the     *)
(* order in which the dependents of a cell are traversed.                  *)
Orders ==
  {Priority(p) : p \in {q \in LiveIds \X LiveIds \X LiveIds :
                           Cardinality({q[1], q[2], q[3]}) = 3}}

OrderIndependent ==
  status = "ready" =>
    \A id \in LiveIds, raw \in Raws, order \in Orders :
       ValuesAndErrors(SetCellRun(cells, id, raw, order).cells)
         = ValuesAndErrors(SetCellRun(cells, id, raw, InsertionOrder).cells)

(* The same where the call leaves no dependency cycle: it holds, so only   *)
(* cycles break C6.                                                        *)
OrderIndependentAcyclic ==
  status = "ready" =>
    \A id \in LiveIds, raw \in Raws :
       LET run == SetCellRun(cells, id, raw, InsertionOrder).cells
       IN (\A c \in LiveIds : ~OnCycle(run, c)) =>
            \A order \in Orders :
               ValuesAndErrors(SetCellRun(cells, id, raw, order).cells)
                 = ValuesAndErrors(run)

(* C7: a token of a formula is treated as a cell reference if and only if  *)
(* it names a cell of the grid as constructed: the dependencies of a cell  *)
(* with a formula are the identifiers of grid cells that occur in it.      *)
GridRefs(cs, raw) ==
  {id \in DOMAIN cs : \E i \in 1..Len(raw) : StartsWith(Slice(raw, i - 1), id)}

ReferencesNameGridCells ==
  status = "ready" =>
    \A id \in DOMAIN cells :
       IsFormula(cells[id].raw) =>
          cells[id].dependencies = GridRefs(cells, cells[id].raw)

(* C8: after any setCell call, the dependencies of a cell are exactly the  *)
(* cell references in its raw formula, none when the raw is no formula,    *)
(* and no edge of an earlier formula is left in any dependents set.        *)
CurrentRefs(cs, id) ==
  IF IsFormula(cs[id].raw) THEN GridRefs(cs, cs[id].raw) ELSE {}

DependenciesExact ==
  status = "ready" =>
    \A id \in DOMAIN cells :
       /\ cells[id].dependencies = CurrentRefs(cells, id)
       /\ Elems(cells[id].dependents)
            = {a \in DOMAIN cells : id \in CurrentRefs(cells, a)}

(* A cell that refers to another is given a raw text without that          *)
(* reference, and the call takes the edge out of both sets.                *)
DependenciesExactWitness ==
  /\ status = "ready"
  /\ \E id \in LiveIds, raw \in Raws, old \in LiveIds :
        LET after == SetCellRun(cells, id, raw, InsertionOrder).cells
        IN /\ old \in cells[id].dependencies
           /\ id \in Elems(cells[old].dependents)
           /\ old \notin after[id].dependencies
           /\ id \notin Elems(after[old].dependents)
           /\ after[id].dependencies # {}

(* C9: the value of a cell whose formula is a well-formed arithmetic       *)
(* expression over numbers, parentheses, + - * / and references to grid    *)
(* cells is the result of standard arithmetic with each reference replaced *)
(* by the numeric value of the referenced cell, 0 when that value is empty *)
(* or a string. Stated for the cells that no dependency cycle feeds.       *)
NumericValue(v) == IF IsNumber(v) THEN v ELSE IntV(0)

(* The tokens of a formula body, a reference being an operand *)
RECURSIVE StandardTokens(_, _, _)
StandardTokens(cs, s, pending) ==
  IF s = <<>> THEN Tokenize(pending)
  ELSE IF Len(s) >= 2 /\ Has(cs, SubSeq(s, 1, 2))
       THEN Tokenize(pending)
            \o <<Tok("num", NumericValue(cs[SubSeq(s, 1, 2)].value))>>
            \o StandardTokens(cs, Slice(s, 2), <<>>)
       ELSE StandardTokens(cs, Tail(s), Append(pending, Head(s)))

StandardResult(cs, body) ==
  LET toks == StandardTokens(cs, body, <<>>)
      r == ParseAdditive(toks, 1)
  IN [ok |-> /\ \A i \in 1..Len(body) :
                   \/ AllowedChar(body[i])
                   \/ \E j \in {i - 1, i} :
                         j >= 1 /\ j < Len(body) /\ Has(cs, SubSeq(body, j, j + 1))
             /\ ~OutsideFragment(toks)
             /\ r.ok /\ r.i = Len(toks) + 1,
      v |-> r.v]

StandardArithmetic ==
  status = "ready" =>
    \A id \in DOMAIN cells :
       LET raw == Trim(cells[id].raw)
           std == StandardResult(cells, Slice(raw, 1))
       IN (/\ StartsWith(raw, <<"=">>)
           /\ std.ok
           /\ ~OnCycle(cells, id) /\ ~BelowCycle(cells, id))
          => cells[id].value = std.v

(* The same where every referenced cell holds a finite number or a string: *)
(* it holds, so only the text put in for an infinite or not-a-number value *)
(* breaks C9 on these cells.                                               *)
StandardArithmeticFinite ==
  status = "ready" =>
    \A id \in DOMAIN cells :
       LET raw == Trim(cells[id].raw)
           std == StandardResult(cells, Slice(raw, 1))
       IN (/\ StartsWith(raw, <<"=">>)
           /\ std.ok
           /\ ~OnCycle(cells, id) /\ ~BelowCycle(cells, id)
           /\ \A ref \in cells[id].dependencies :
                 Has(cells, ref) => cells[ref].value.t \in {"num", "str"})
          => cells[id].value = std.v

(* C10: a cell whose raw text, trimmed, does not start with "=" has a null *)
(* error and the value "" when the trimmed text is empty, the number it    *)
(* denotes when it parses entirely as a number, the trimmed text otherwise.*)
LiteralValues ==
  status = "ready" =>
    \A id \in DOMAIN cells :
       LET raw == Trim(cells[id].raw)
           num == StringToNumber(raw)
       IN ~StartsWith(raw, <<"=">>) =>
            /\ cells[id].error = NoError
            /\ raw = <<>> => cells[id].value = EmptyStr
            /\ raw # <<>> /\ num.t # "nan" => cells[id].value = num
            /\ raw # <<>> /\ num.t = "nan" => cells[id].value = Str(raw)

(* " 42 " gave the number 42 and "hello" the text, and giving the empty    *)
(* text to a cell whose formula had failed leaves it empty, without error. *)
LiteralValuesWitness ==
  /\ status = "ready"
  /\ cells[A1].raw = <<" ", "4", "2", " ">>
  /\ cells[A1].value = IntV(42)
  /\ cells[B1].raw = <<"h", "e", "l", "l", "o">>
  /\ cells[B1].value = Str(<<"h", "e", "l", "l", "o">>)
  /\ cells[C1].error # NoError
  /\ LET after == SetCellRun(cells, C1, <<>>, InsertionOrder).cells
     IN after[C1].value = EmptyStr /\ after[C1].error = NoError

(* C11: when the body of a formula, after the substitution of its          *)
(* references, has a character other than digits, white space,             *)
(* parentheses, "." and + - * /, or is not a well-formed expression,       *)
(* setCell returns and the cell has the value '#ERR' and a non-null error. *)
(* Stated for every call from a reachable state and every cell the call    *)
(* evaluates as a formula, on the text of its latest evaluation.           *)
Rejected(expr) == ~ValidExpr(expr) \/ ~EvalExpr(expr).ok

ErrorDoesNotStopSweep ==
  status = "ready" =>
    \A id \in LiveIds, raw \in ArithRaws :
       LET M == SetCellRun(cells, id, raw, InsertionOrder)
       IN M.cells[id].error # NoError =>
            /\ ReachableBy(M.cells, DependentsOf(M.cells), id) \subseteq M.evald
            /\ \A c \in M.evald :
                  M.cells[c].error # NoError =>
                     c \in DOMAIN M.texts /\ Rejected(M.texts[c])
            /\ \A c \in DOMAIN cells \ M.evald :
                  M.cells[c].error = cells[c].error

(* B1 and C1 hold formulas over A1; the call setCell(A1, "=(1") leaves A1  *)
(* in error and still evaluates both, which get 0 + 1 and 0 * 1 + 2        *)
(* without error.                                                          *)
ErrorDoesNotStopSweepWitness ==
  /\ status = "ready"
  /\ cells[B1].raw = <<"=", "A", "1", "+", "1">>
  /\ cells[C1].raw = <<"=", "A", "1", "*", "B", "1", "+", "2">>
  /\ LET M == SetCellRun(cells, A1, <<"=", "(", "1">>, InsertionOrder)
     IN /\ M.cells[A1].value = ERR
        /\ M.cells[A1].error = "SyntaxError"
        /\ {B1, C1} \subseteq M.evald
        /\ M.cells[B1].value = IntV(1) /\ M.cells[B1].error = NoError
        /\ M.cells[C1].value = IntV(2) /\ M.cells[C1].error = NoError

(* C13: setCell with an identifier that names no cell of the grid changes  *)
(* no raw, value, error, dependencies or dependents and raises no error    *)
(* (it returns undefined); getCell with such an identifier returns         *)
(* undefined.                                                              *)
UnknownIdNoOp ==
  [][ \A id \in {F1} \cup InheritedNames :
        /\ (\E raw \in ReadRaws : SetCell(id, raw))
             => UNCHANGED <<cols, rows, cells, status>> /\ ret' = Undefined
        /\ GetCell(id)
             => UNCHANGED <<cols, rows, cells, status>> /\ ret' = Undefined ]_vars

(* The same for an identifier that is no property of this.cells at all,    *)
(* and the part of C13 that holds for every identifier: no call with an    *)
(* identifier that names no cell changes a cell, and getCell returns       *)
(* undefined.                                                              *)
UnknownIdNoOpAbsent ==
  [][ /\ (\E raw \in ReadRaws : SetCell(F1, raw))
           => UNCHANGED <<cols, rows, cells, status>> /\ ret' = Undefined
      /\ \A id \in {F1} \cup InheritedNames :
           /\ (\E raw \in ReadRaws : SetCell(id, raw))
                => UNCHANGED <<cols, rows, cells, status>>
           /\ GetCell(id)
                => UNCHANGED <<cols, rows, cells, status>> /\ ret' = Undefined ]_vars

(* C14: getCell(id) returns the value stored in the named cell (undefined  *)
(* when there is none) and changes nothing: no raw, value, error,          *)
(* dependencies or dependents, so it evaluates no cell.                    *)
GetCellPure ==
  [][ \A id \in CallIds \cup InheritedNames :
        GetCell(id) =>
           /\ UNCHANGED <<cols, rows, cells, status>>
           /\ ret' = IF Has(cells, id) THEN cells[id].value ELSE Undefined ]_vars

(* getCell has returned the stored 1 of A1 where A1 and B1 refer to each   *)
(* other and an evaluation of A1 would give 2 and change B1.               *)
GetCellPureWitness ==
  /\ status = "ready"
  /\ cells[A1].raw = <<"=", "B", "1", "+", "1">>
  /\ cells[B1].raw = <<"=", "A", "1", "+", "1">>
  /\ cells[A1].value = IntV(1)
  /\ ret = IntV(1)
  /\ LET M == Evaluate(NewRun(cells, InsertionOrder), A1)
     IN M.cells[A1].value = IntV(2) /\ M.cells[B1].value # cells[B1].value

(* C15: setCell(A, raw) changes the value or error only of A and of the    *)
(* cells reachable from A along dependents edges (those before the call    *)
(* or after it); every other cell, a cell A merely refers to included,     *)
(* has the value and error it had.                                         *)
Touched(before, after, id) ==
  {id} \cup ReachableBy(before, DependentsOf(before), id)
       \cup ReachableBy(after, DependentsOf(after), id)

FrameOfValues ==
  status = "ready" =>
    \A id \in LiveIds, raw \in Raws :
       LET after == SetCellRun(cells, id, raw, InsertionOrder).cells
       IN \A c \in DOMAIN cells \ Touched(cells, after, id) :
             after[c].value = cells[c].value /\ after[c].error = cells[c].error

(* The same for the cells that are neither on nor below a dependency cycle *)
(* after the call: it holds, so only cycles break C15.                     *)
FrameOfValuesAcyclic ==
  status = "ready" =>
    \A id \in LiveIds, raw \in Raws :
       LET after == SetCellRun(cells, id, raw, InsertionOrder).cells
       IN \A c \in DOMAIN cells \ Touched(cells, after, id) :
             ~OnCycle(after, c) /\ ~BelowCycle(after, c) =>
                after[c].value = cells[c].value /\ after[c].error = cells[c].error

(* C16: setCell(A, raw) leaves the raw and the dependencies of every cell  *)
(* other than A as they were, whether or not the call evaluates them.      *)
FrameOfRawAndDependencies ==
  status = "ready" =>
    \A id \in CallIds, raw \in Raws :
       LET after == SetCellRun(cells, id, raw, InsertionOrder).cells
       IN \A c \in DOMAIN cells \ {id} :
             /\ after[c].raw = cells[c].raw
             /\ after[c].dependencies = cells[c].dependencies

(* B1 = A1 + 1 and C1 = B1 + 1: the call setCell(A1, "10") evaluates both  *)
(* and changes their values, and the call setCell(C1, "=B1") evaluates B1  *)
(* and A1 as references; raw and dependencies of the others stay.          *)
FrameOfRawAndDependenciesWitness ==
  /\ status = "ready"
  /\ cells[A1].raw = <<"1">>
  /\ cells[B1].raw = <<"=", "A", "1", "+", "1">>
  /\ cells[C1].raw = <<"=", "B", "1", "+", "1">>
  /\ LET M == SetCellRun(cells, A1, <<"1", "0">>, InsertionOrder)
     IN /\ {B1, C1} \subseteq M.evald
        /\ M.cells[B1].value = IntV(11) /\ M.cells[C1].value = IntV(12)
        /\ M.cells[B1].dependencies = {A1} /\ M.cells[C1].dependencies = {B1}
  /\ LET M == SetCellRun(cells, C1, <<"=", "B", "1">>, InsertionOrder)
     IN {A1, B1} \subseteq M.evald /\ M.cells[B1].raw = cells[B1].raw

(* C17: when the dependency graph is acyclic (diamonds and formulas that   *)
(* mention a reference twice included), a setCell call assigns '#CIRC' to  *)
(* no cell, and each top-level evaluation of the call returns with an      *)
(* empty in-progress set.                                                  *)
Acyclic(cs) == \A c \in DOMAIN cs : ~OnCycle(cs, c)

NoFalseCircular ==
  status = "ready" =>
    \A id \in LiveIds, raw \in ShapeRaws :
       LET M == SetCellRun(cells, id, raw, InsertionOrder)
       IN Acyclic(M.cells) => M.circ = {} /\ M.residue = {}

(* A1 = 1, B1 = A1 + A1 and C1 = A1 + B1 (a diamond over A1): the call     *)
(* setCell(A1, "1") evaluates all three and assigns '#CIRC' to none.       *)
NoFalseCircularWitness ==
  /\ status = "ready"
  /\ cells[A1].raw = <<"1">>
  /\ cells[B1].raw = <<"=", "A", "1", "+", "A", "1">>
  /\ cells[B1].value = IntV(2)
  /\ cells[C1].raw = <<"=", "A", "1", "+", "B", "1">>
  /\ cells[C1].value = IntV(3)
  /\ Acyclic(cells)
  /\ LET M == SetCellRun(cells, A1, <<"1">>, InsertionOrder)
     IN /\ M.evald = {A1, B1, C1}
        /\ M.circ = {} /\ M.residue = {}
        /\ \A c \in DOMAIN cells : M.cells[c].value # CIRC

(* C18: in every state a caller can observe, a cell has a non-null error   *)
(* only if its value is '#ERR' or '#CIRC'; and after a call, a cell whose  *)
(* latest evaluation in the call succeeded (a literal, or a formula whose  *)
(* text was not rejected) has a null error.                                *)
ErrorOnlyWithSentinel ==
  status = "ready" =>
    /\ \A c \in DOMAIN cells :
          cells[c].error # NoError => cells[c].value \in {ERR, CIRC}
    /\ \A id \in LiveIds, raw \in ArithRaws :
          LET M == SetCellRun(cells, id, raw, InsertionOrder)
          IN \A c \in M.evald :
                (c \in DOMAIN M.texts => ~Rejected(M.texts[c]))
                   => M.cells[c].error = NoError

(* A1 holds Infinity, so B1 = A1 + 1 is in error, and C1 = "=(1" is in     *)
(* error; the call setCell(A1, "5") evaluates B1 again, which gets 6 and   *)
(* a null error, while C1 keeps '#ERR' and its error.                      *)
ErrorOnlyWithSentinelWitness ==
  /\ status = "ready"
  /\ cells[A1].value = Inf(1)
  /\ cells[B1].raw = <<"=", "A", "1", "+", "1">>
  /\ cells[B1].value = ERR /\ cells[B1].error = "Invalid formula"
  /\ cells[C1].value = ERR /\ cells[C1].error = "SyntaxError"
  /\ LET M == SetCellRun(cells, A1, <<"5">>, InsertionOrder)
     IN /\ M.cells[B1].value = IntV(6) /\ M.cells[B1].error = NoError
        /\ M.cells[C1].value = ERR /\ M.cells[C1].error = "SyntaxError"

(* C19: the cell identifiers of a grid are, from construction on, exactly  *)
(* the cols x rows identifiers made of a column letter and a 1-based row;  *)
(* no setCell or getCell call, with an unknown identifier or a formula     *)
(* that refers to a cell that does not exist included, adds or removes a   *)
(* cell.                                                                   *)
GridIds(nc, nr) == {<<Letters[i]>> \o NatToChars(r) : i \in 1..nc, r \in 1..nr}

CellSetFixed ==
  /\ DOMAIN cells = GridIds(cols, rows)
  /\ Cardinality(DOMAIN cells) = cols * rows

(* On the 2 x 2 grid B1 holds a formula over C1, which is no cell and is   *)
(* recorded as a dependency, and getCell has returned its value 1; calls   *)
(* with F1 and with an inherited name leave the four cells.                *)
CellSetFixedWitness ==
  /\ cols = 2 /\ rows = 2
  /\ status = "ready"
  /\ cells[B1].raw = <<"=", "C", "1", "+", "1">>
  /\ C1 \in cells[B1].dependencies
  /\ ~Has(cells, C1)
  /\ cells[B1].value = IntV(1)
  /\ ret = IntV(1)
  /\ \A id \in {F1} \cup InheritedNames :
        DOMAIN SetCellRun(cells, id, <<"1">>, InsertionOrder).cells = DOMAIN cells

==========================================================================
